---- MODULE Spec2Model ----
(***************************************************************************)
(* Model of parse-faq.py: the line normalizer clean_line, the heading      *)
(* driven parser parse_document, the batch loop process_faq_documents and  *)
(* the delete-then-insert persistence of save_documents_to_mongodb.        *)
(*                                                                         *)
(* Text is a sequence of one-character strings.  Three specifications      *)
(* share the variables:                                                    *)
(*   SpecClean  clean_line applied (twice) to every bounded line           *)
(*   Spec       parse_document over every bounded paragraph sequence       *)
(*   SpecBatch  main: process_faq_documents, then save_documents_to_mongodb*)
(***************************************************************************)
EXTENDS Integers, Sequences, FiniteSets, TLC

\* ------------------------------------------------------------------ bounds
MaxLineLen == 3

MaxParas == 5

MaxLiveParas == 3

MaxPrior == 2

\* ------------------------------------------------------------ characters
\* U+FEFF, the byte-order mark; str.isspace() is False for it.
BOM == "FEFF"

\* The characters of the model for which str.isspace() is True.
Whitespace == {" ", "\n"}

Chars == {"a", " ", "\n", BOM}

RECURSIVE StringsUpTo(_)
StringsUpTo(n) ==
    IF n = 0 THEN {<<>>}
    ELSE LET shorter == StringsUpTo(n - 1)
         IN  shorter \cup {Append(s, c) : s \in {t \in shorter : Len(t) = n - 1}, c \in Chars}

RawLines == StringsUpTo(MaxLineLen)

\* ---------------------------------------------------------- str.strip
RECURSIVE lstrip(_, _)
lstrip(s, chars) ==
    IF s # <<>> /\ Head(s) \in chars THEN lstrip(Tail(s), chars) ELSE s

RECURSIVE rstrip(_, _)
rstrip(s, chars) ==
    IF s # <<>> /\ s[Len(s)] \in chars
    THEN rstrip(SubSeq(s, 1, Len(s) - 1), chars)
    ELSE s

strip(s, chars) == rstrip(lstrip(s, chars), chars)

\* line.strip().strip('﻿')
clean_line(line) == strip(strip(line, Whitespace), {BOM})

\* ------------------------------------------------------------ paragraphs
StyleNames == {"Heading 1", "Heading 2", "Normal", "List Paragraph"}

\* p.style.name.lower()
lower(name) ==
    CASE name = "Heading 1" -> "heading 1"
      [] name = "Heading 2" -> "heading 2"
      [] name = "Normal" -> "normal"
      [] name = "List Paragraph" -> "list paragraph"

question_heading_style == "heading 2"

section_heading_style == "heading 1"

\* Paragraph texts as python-docx delivers them (p.text), before cleaning:
\* no text, text with whitespace around it, plain text, and text with
\* byte-order marks around whitespace.
HeadingTexts == { <<>>, <<" ", "a">>, <<"b">> }

SectionTexts == HeadingTexts \ { <<>> }

BodyTexts == { <<>>, <<"b">>, <<BOM, " ", BOM>> }

\* The paragraphs a document is made of.
Paragraphs ==
    [style : {"Heading 1"}, text : SectionTexts]
        \cup [style : {"Heading 2"}, text : HeadingTexts]
        \cup [style : {"Normal"}, text : BodyTexts]
        \cup [style : {"List Paragraph"}, text : { <<BOM, " ", "a">> }]

\* ------------------------------------------------------- parse_document
\* The locals of parse_document.  n counts the paragraphs iterated so far,
\* opened_at is the position of the paragraph that set question_title
\* (0: none yet) and flushes[k] tells where the k-th appended record was
\* opened and closed; the three are history, the code keeps none of them.
ParseInit ==
    [ questions          |-> <<>>,
      section_title      |-> <<>>,
      question_title     |-> <<>>,
      answer_text_so_far |-> <<>>,
      n                  |-> 0,
      opened_at          |-> 0,
      flushes            |-> <<>> ]

\* Variant of append for the check of C6: the new item goes to the front.
append_front(list, item) == <<item>> \o list

\* list.append
append(list, item) == Append(list, item)

\* Variant of FlushCondition for the check of C4: the answer is not tested.
FlushConditionNoAnswer(st) ==
    /\ st.section_title # <<>>
    /\ st.question_title # <<>>

\* Variant of FlushCondition for the check of C16: the section is not tested.
FlushConditionNoSection(st) ==
    /\ st.answer_text_so_far # <<>>
    /\ st.question_title # <<>>

\* if answer_text_so_far and section_title and question_title
FlushCondition(st) ==
    /\ st.answer_text_so_far # <<>>
    /\ st.section_title # <<>>
    /\ st.question_title # <<>>

NewRecord(st) ==
    [ text     |-> strip(st.answer_text_so_far, Whitespace),
      section  |-> st.section_title,
      question |-> st.question_title ]

\* questions.append({...}) when the condition holds; at is the flush point.
Flush(st, at) ==
    IF FlushCondition(st)
    THEN [st EXCEPT !.questions = append(@, NewRecord(st)),
                    !.flushes = append(@, [opened |-> st.opened_at, closed |-> at])]
    ELSE st

\* Variant of LoopBody for the check of C5: a question heading does not
\* reset answer_text_so_far.
LoopBodyKeepsAnswer(st, p) ==
    LET style  == lower(p.style)
        p_text == clean_line(p.text)
        at     == st.n + 1
        seen   == [st EXCEPT !.n = at]
    IN  IF p_text = <<>> THEN seen
        ELSE IF style = section_heading_style
             THEN [seen EXCEPT !.section_title = p_text]
        ELSE IF style = question_heading_style
             THEN [Flush(seen, at) EXCEPT !.question_title = p_text,
                                          !.opened_at = at]
        ELSE [seen EXCEPT !.answer_text_so_far = @ \o <<"\n">> \o p_text]

\* Variant of LoopBody for the check of C14: a section heading closes the
\* open question with a flush.
LoopBodySectionFlushes(st, p) ==
    LET style  == lower(p.style)
        p_text == clean_line(p.text)
        at     == st.n + 1
        seen   == [st EXCEPT !.n = at]
    IN  IF p_text = <<>> THEN seen
        ELSE IF style = section_heading_style
             THEN [Flush(seen, at) EXCEPT !.section_title = p_text]
        ELSE IF style = question_heading_style
             THEN [Flush(seen, at) EXCEPT !.question_title = p_text,
                                          !.answer_text_so_far = <<>>,
                                          !.opened_at = at]
        ELSE [seen EXCEPT !.answer_text_so_far = @ \o <<"\n">> \o p_text]

\* Variant of LoopBody for the check of C15: a section heading drops the
\* answer text gathered so far.
LoopBodySectionResets(st, p) ==
    LET style  == lower(p.style)
        p_text == clean_line(p.text)
        at     == st.n + 1
        seen   == [st EXCEPT !.n = at]
    IN  IF p_text = <<>> THEN seen
        ELSE IF style = section_heading_style
             THEN [seen EXCEPT !.section_title = p_text,
                               !.answer_text_so_far = <<>>]
        ELSE IF style = question_heading_style
             THEN [Flush(seen, at) EXCEPT !.question_title = p_text,
                                          !.answer_text_so_far = <<>>,
                                          !.opened_at = at]
        ELSE [seen EXCEPT !.answer_text_so_far = @ \o <<"\n">> \o p_text]

\* Variant of LoopBody for the check of C17: only body paragraphs without
\* text are skipped, a heading without text is handled as a heading.
LoopBodyEmptyHeadings(st, p) ==
    LET style  == lower(p.style)
        p_text == clean_line(p.text)
        at     == st.n + 1
        seen   == [st EXCEPT !.n = at]
    IN  IF style = section_heading_style
             THEN [seen EXCEPT !.section_title = p_text]
        ELSE IF style = question_heading_style
             THEN [Flush(seen, at) EXCEPT !.question_title = p_text,
                                          !.answer_text_so_far = <<>>,
                                          !.opened_at = at]
        ELSE IF p_text = <<>> THEN seen
        ELSE [seen EXCEPT !.answer_text_so_far = @ \o <<"\n">> \o p_text]

\* Variant of LoopBody for the check of C18: only paragraphs of style
\* 'normal' are body text, other labels are skipped.
LoopBodyOnlyNormal(st, p) ==
    LET style  == lower(p.style)
        p_text == clean_line(p.text)
        at     == st.n + 1
        seen   == [st EXCEPT !.n = at]
    IN  IF p_text = <<>> THEN seen
        ELSE IF style = section_heading_style
             THEN [seen EXCEPT !.section_title = p_text]
        ELSE IF style = question_heading_style
             THEN [Flush(seen, at) EXCEPT !.question_title = p_text,
                                          !.answer_text_so_far = <<>>,
                                          !.opened_at = at]
        ELSE IF style = "normal"
             THEN [seen EXCEPT !.answer_text_so_far = @ \o <<"\n">> \o p_text]
        ELSE seen

\* Variant of LoopBody for the check of C19: answer_text_so_far is reset
\* only when the question heading has emitted a record.
LoopBodyResetsOnFlushOnly(st, p) ==
    LET style  == lower(p.style)
        p_text == clean_line(p.text)
        at     == st.n + 1
        seen   == [st EXCEPT !.n = at]
    IN  IF p_text = <<>> THEN seen
        ELSE IF style = section_heading_style
             THEN [seen EXCEPT !.section_title = p_text]
        ELSE IF style = question_heading_style
             THEN IF FlushCondition(seen)
                  THEN [Flush(seen, at) EXCEPT !.question_title = p_text,
                                               !.answer_text_so_far = <<>>,
                                               !.opened_at = at]
                  ELSE [seen EXCEPT !.question_title = p_text,
                                    !.opened_at = at]
        ELSE [seen EXCEPT !.answer_text_so_far = @ \o <<"\n">> \o p_text]

\* One iteration of `for p in doc.paragraphs`.
LoopBody(st, p) ==
    LET style  == lower(p.style)
        p_text == clean_line(p.text)
        at     == st.n + 1
        seen   == [st EXCEPT !.n = at]
    IN  IF p_text = <<>> THEN seen
        ELSE IF style = section_heading_style
             THEN [seen EXCEPT !.section_title = p_text]
        ELSE IF style = question_heading_style
             THEN [Flush(seen, at) EXCEPT !.question_title = p_text,
                                          !.answer_text_so_far = <<>>,
                                          !.opened_at = at]
        ELSE [seen EXCEPT !.answer_text_so_far = @ \o <<"\n">> \o p_text]

\* The flush after the loop; its flush point is one past the last paragraph.
FinalFlush(st) == Flush(st, st.n + 1)

RECURSIVE ParseLoop(_, _)
ParseLoop(st, paras) ==
    IF paras = <<>> THEN st ELSE ParseLoop(LoopBody(st, Head(paras)), Tail(paras))

parse_document(paras) == FinalFlush(ParseLoop(ParseInit, paras)).questions

\* ------------------------------------------------------------- variables
VARIABLES
    line,               \* clean_line: the argument of the first call
    cleaned,            \* clean_line: results of the successive calls
    paragraphs,         \* parse_document: doc.paragraphs iterated so far
    questions,
    section_title,
    question_title,
    answer_text_so_far,
    opened_at,
    flushes,
    pc,                 \* parse_document: "loop" | "done"
    main_pc,            \* main: "process" | "save" | "insert" | "done" | "aborted"
    course_idx,         \* process_faq_documents: mapping entries handled
    fetched,            \* history: the read_faq calls made and their outcome
    documents,          \* the aggregate built by process_faq_documents
    collection,         \* db.faq_collection, in insertion order
    prior,              \* history: the collection as the run found it
    db_ops,             \* history: the collection operations invoked
    ins_idx,            \* save_documents_to_mongodb: bundles inserted
    next_id,            \* the next fresh ObjectId
    alive               \* FALSE once the process has been killed

cleanVars == <<line, cleaned>>

batchVars == <<main_pc, course_idx, fetched, documents, collection, prior,
               db_ops, ins_idx, next_id, alive>>

parseVars == <<paragraphs, questions, section_title, question_title,
               answer_text_so_far, opened_at, flushes, pc>>

vars == <<cleanVars, parseVars, batchVars>>

\* ---------------------------------------------------------------- idle
CleanIdle == line = <<>> /\ cleaned = <<>>

ParseIdle ==
    /\ paragraphs = <<>>
    /\ questions = <<>>
    /\ section_title = <<>>
    /\ question_title = <<>>
    /\ answer_text_so_far = <<>>
    /\ opened_at = 0
    /\ flushes = <<>>
    /\ pc = "idle"

BatchIdle ==
    /\ main_pc = "idle"
    /\ course_idx = 0
    /\ fetched = <<>>
    /\ documents = <<>>
    /\ collection = <<>>
    /\ prior = <<>>
    /\ db_ops = <<>>
    /\ ins_idx = 0
    /\ next_id = 1
    /\ alive = FALSE

\* ------------------------------------------------------ SpecClean actions
InitClean ==
    /\ line \in RawLines
    /\ cleaned = <<>>
    /\ ParseIdle
    /\ BatchIdle

\* clean_line(line), then clean_line of its own result.
CleanLine ==
    /\ Len(cleaned) < 2
    /\ cleaned' = Append(cleaned,
                         clean_line(IF cleaned = <<>> THEN line ELSE cleaned[Len(cleaned)]))
    /\ UNCHANGED <<line, parseVars, batchVars>>

NextClean == CleanLine

SpecClean == InitClean /\ [][NextClean]_vars

\* ----------------------------------------------------------- Spec actions
ParseState ==
    [ questions          |-> questions,
      section_title      |-> section_title,
      question_title     |-> question_title,
      answer_text_so_far |-> answer_text_so_far,
      n                  |-> Len(paragraphs),
      opened_at          |-> opened_at,
      flushes            |-> flushes ]

SetParseState(st) ==
    /\ questions' = st.questions
    /\ section_title' = st.section_title
    /\ question_title' = st.question_title
    /\ answer_text_so_far' = st.answer_text_so_far
    /\ opened_at' = st.opened_at
    /\ flushes' = st.flushes

Init ==
    /\ CleanIdle
    /\ BatchIdle
    /\ paragraphs = <<>>
    /\ questions = ParseInit.questions
    /\ section_title = ParseInit.section_title
    /\ question_title = ParseInit.question_title
    /\ answer_text_so_far = ParseInit.answer_text_so_far
    /\ opened_at = ParseInit.opened_at
    /\ flushes = ParseInit.flushes
    /\ pc = "loop"

\* Variant of Paragraph for the check of C12: body text that comes before
\* any question heading is an error that ends the parse.
ParagraphRejectsOrphans ==
    /\ pc = "loop"
    /\ Len(paragraphs) < MaxParas
    /\ \E p \in Paragraphs :
          /\ paragraphs' = Append(paragraphs, p)
          /\ SetParseState(LoopBody(ParseState, p))
          /\ pc' = IF /\ question_title = <<>>
                      /\ clean_line(p.text) # <<>>
                      /\ lower(p.style) \notin {section_heading_style, question_heading_style}
                   THEN "failed"
                   ELSE pc
    /\ UNCHANGED <<cleanVars, batchVars>>

\* The loop takes the next paragraph of the document.
Paragraph ==
    /\ pc = "loop"
    /\ Len(paragraphs) < MaxParas
    /\ \E p \in Paragraphs :
          /\ paragraphs' = Append(paragraphs, p)
          /\ SetParseState(LoopBody(ParseState, p))
    /\ UNCHANGED <<pc, cleanVars, batchVars>>

\* doc.paragraphs is exhausted: the final flush, then return questions.
EndOfStream ==
    /\ pc = "loop"
    /\ SetParseState(FinalFlush(ParseState))
    /\ pc' = "done"
    /\ UNCHANGED <<paragraphs, cleanVars, batchVars>>

Next == Paragraph \/ EndOfStream

Spec == Init /\ [][Next]_vars

\* The same parse over short documents, with the loop kept running: the
\* interpreter goes on to the next iteration, and to the code after the loop
\* once the paragraphs are exhausted.
ShortParagraph == Len(paragraphs) < MaxLiveParas /\ Paragraph

NextLive == ShortParagraph \/ EndOfStream

SpecLive == Init /\ [][NextLive]_vars /\ WF_vars(NextLive)

\* ------------------------------------------------------ SpecBatch actions
\* The mapping of main, in dict iteration order.
faq_documents ==
    << [course |-> "data-engineering-zoomcamp",
        file_id |-> "19bnYs80DwuUimHM65UV3sylsCn2j1vziPOwzBwQrebw"],
       [course |-> "machine-learning-zoomcamp",
        file_id |-> "1LpPanc33QJJ6BSsyxVg-pWNMplal84TdZtq10naIhD8"],
       [course |-> "mlops-zoomcamp",
        file_id |-> "12TlBfhIiKtyBv8RnsoJR6F72bkPDGEvPOItJIxaEzE0"] >>

\* What docx.Document(...).paragraphs can be for a fetched file: no paragraph
\* at all, a question without an answer, one answered question.
FetchableDocs ==
    { <<>>,
      << [style |-> "Heading 1", text |-> <<"b">>],
         [style |-> "Heading 2", text |-> <<"b">>] >>,
      << [style |-> "Heading 1", text |-> <<"b">>],
         [style |-> "Heading 2", text |-> <<" ", "a">>],
         [style |-> "Normal", text |-> <<"b">>] >> }

\* response.raise_for_status() / requests.get raising, docx.Document raising.
ReadErrors == {"FetchError", "DecodeError"}

\* {'course': course, 'documents': course_documents}
Bundle(course, course_documents) ==
    [course |-> course, documents |-> course_documents]

\* Variant of AppendBundle for the check of C10: a source without records
\* contributes no bundle.
AppendBundleIfRecords(docs, course, course_documents) ==
    IF course_documents = <<>> THEN docs
    ELSE Append(docs, Bundle(course, course_documents))

\* documents.append({'course': course, 'documents': course_documents})
AppendBundle(docs, course, course_documents) ==
    Append(docs, Bundle(course, course_documents))

\* insert_one gives the dict it is passed an '_id' and stores it.
WithId(doc, id) == [_id |-> id, course |-> doc.course, documents |-> doc.documents]

\* Variant of delete_many for the check of C8: only one document is deleted.
delete_one(coll) == IF coll = <<>> THEN <<>> ELSE Tail(coll)

\* collection.delete_many({})
delete_many(coll) == <<>>

\* Variant of insert_one for the check of C9: the collection is cleared by
\* the insert instead of before it.
insert_replacing(coll, doc) == <<doc>>

\* collection.insert_one(doc)
insert_one(coll, doc) == Append(coll, doc)

\* What an earlier run may have left in the collection.
PriorBundles ==
    { Bundle("mlops-zoomcamp", <<>>),
      Bundle("data-engineering-zoomcamp",
             << [text |-> <<"a">>, section |-> <<"a">>, question |-> <<"a">>] >>) }

RECURSIVE Stored(_, _)
Stored(bundles, first_id) ==
    IF bundles = <<>> THEN <<>>
    ELSE <<WithId(Head(bundles), first_id)>> \o Stored(Tail(bundles), first_id + 1)

PriorCollections ==
    UNION { { Stored(b, 1) : b \in [1..k -> PriorBundles] } : k \in 0..MaxPrior }

InitBatch ==
    /\ CleanIdle
    /\ ParseIdle
    /\ main_pc = "process"
    /\ course_idx = 0
    /\ fetched = <<>>
    /\ documents = <<>>
    /\ collection \in PriorCollections
    /\ prior = collection
    /\ db_ops = <<>>
    /\ ins_idx = 0
    /\ next_id = Len(collection) + 1
    /\ alive = TRUE

\* Variant of ParseCall for the check of C11: the titles and the answer are
\* not locals of the call, they survive from the previous call.
ParseCallLeaking(paras) ==
    FinalFlush(ParseLoop([ParseInit EXCEPT !.section_title = section_title,
                                           !.question_title = question_title,
                                           !.answer_text_so_far = answer_text_so_far],
                         paras))

\* A call of parse_document: the locals are set up afresh, the loop runs over
\* the paragraphs, then the final flush; the value is the locals at return.
ParseCall(paras) == FinalFlush(ParseLoop(ParseInit, paras))

\* One iteration of the loop of process_faq_documents whose read_faq returns.
\* The parse variables keep the locals of this call of parse_document.
ReadFaq ==
    /\ alive
    /\ main_pc = "process"
    /\ course_idx < Len(faq_documents)
    /\ \E doc \in FetchableDocs :
          LET entry == faq_documents[course_idx + 1]
              st    == ParseCall(doc)
          IN  /\ fetched' = Append(fetched, [file_id |-> entry.file_id,
                                             error |-> "none", paragraphs |-> doc])
              /\ paragraphs' = doc
              /\ SetParseState(st)
              /\ pc' = "done"
              /\ documents' = AppendBundle(documents, entry.course, st.questions)
    /\ course_idx' = course_idx + 1
    /\ UNCHANGED <<main_pc, collection, prior, db_ops, ins_idx, next_id, alive,
                   cleanVars>>

\* Variant of ReadFaqFails for the check of C7: the loop swallows the
\* exception and goes on with the next source.
ReadFaqFailsSkipped ==
    /\ alive
    /\ main_pc = "process"
    /\ course_idx < Len(faq_documents)
    /\ \E e \in ReadErrors :
          fetched' = Append(fetched, [file_id |-> faq_documents[course_idx + 1].file_id,
                                      error |-> e, paragraphs |-> <<>>])
    /\ course_idx' = course_idx + 1
    /\ UNCHANGED <<main_pc, documents, collection, prior, db_ops, ins_idx,
                   next_id, alive, cleanVars, parseVars>>

\* read_faq raises: nothing catches it, the exception leaves main.
ReadFaqFails ==
    /\ alive
    /\ main_pc = "process"
    /\ course_idx < Len(faq_documents)
    /\ \E e \in ReadErrors :
          fetched' = Append(fetched, [file_id |-> faq_documents[course_idx + 1].file_id,
                                      error |-> e, paragraphs |-> <<>>])
    /\ main_pc' = "aborted"
    /\ UNCHANGED <<course_idx, documents, collection, prior, db_ops, ins_idx,
                   next_id, alive, cleanVars, parseVars>>

\* The loop is over: process_faq_documents returns, main calls
\* save_documents_to_mongodb.
ProcessReturns ==
    /\ alive
    /\ main_pc = "process"
    /\ course_idx = Len(faq_documents)
    /\ main_pc' = "save"
    /\ UNCHANGED <<course_idx, fetched, documents, collection, prior, db_ops,
                   ins_idx, next_id, alive, cleanVars, parseVars>>

DeleteMany ==
    /\ alive
    /\ main_pc = "save"
    /\ collection' = delete_many(collection)
    /\ db_ops' = Append(db_ops, "delete_many")
    /\ main_pc' = "insert"
    /\ UNCHANGED <<course_idx, fetched, documents, prior, ins_idx, next_id,
                   alive, cleanVars, parseVars>>

\* One iteration of `for doc in documents`.
InsertOne ==
    /\ alive
    /\ main_pc = "insert"
    /\ ins_idx < Len(documents)
    /\ LET doc == WithId(documents[ins_idx + 1], next_id)
       IN  /\ collection' = insert_one(collection, doc)
           /\ documents' = [documents EXCEPT ![ins_idx + 1] = doc]
    /\ db_ops' = Append(db_ops, "insert_one")
    /\ ins_idx' = ins_idx + 1
    /\ next_id' = next_id + 1
    /\ UNCHANGED <<main_pc, course_idx, fetched, prior, alive, cleanVars, parseVars>>

\* The insert loop is over: save_documents_to_mongodb and main return.
SaveReturns ==
    /\ alive
    /\ main_pc = "insert"
    /\ ins_idx = Len(documents)
    /\ main_pc' = "done"
    /\ UNCHANGED <<course_idx, fetched, documents, collection, prior, db_ops,
                   ins_idx, next_id, alive, cleanVars, parseVars>>

\* The process is killed between two steps of the run.
Crash ==
    /\ alive
    /\ main_pc \in {"process", "save", "insert"}
    /\ alive' = FALSE
    /\ UNCHANGED <<main_pc, course_idx, fetched, documents, collection, prior,
                   db_ops, ins_idx, next_id, cleanVars, parseVars>>

NextBatch ==
    \/ ReadFaq
    \/ ReadFaqFails
    \/ ProcessReturns
    \/ DeleteMany
    \/ InsertOne
    \/ SaveReturns
    \/ Crash

SpecBatch == InitBatch /\ [][NextBatch]_vars

\* ================================================================ clean_line
\* C2: clean_line is idempotent: cleaning an already cleaned line changes
\* nothing, clean_line(clean_line(x)) = clean_line(x) for every line x.
C2_CleanLineIdempotent ==
    Len(cleaned) = 2 => cleaned[2] = cleaned[1]

\* C3: the result of clean_line neither starts nor ends with whitespace and
\* does not start with a byte-order mark, and the empty line yields the
\* empty line.
C3_CleanLineStripped ==
    Len(cleaned) >= 1 =>
        LET r == cleaned[1]
        IN  /\ r # <<>> => /\ r[1] \notin Whitespace
                           /\ r[Len(r)] \notin Whitespace
                           /\ r[1] # BOM
            /\ line = <<>> => r = <<>>

\* ============================================================ parse_document
\* Reading the paragraphs iterated so far.
IsSectionHeading(i) == lower(paragraphs[i].style) = section_heading_style

IsQuestionHeading(i) == lower(paragraphs[i].style) = question_heading_style

IsBody(i) == ~IsSectionHeading(i) /\ ~IsQuestionHeading(i)

HasText(i) == clean_line(paragraphs[i].text) # <<>>

Positions == 1..Len(paragraphs)

\* The first position after i that satisfies Stops, or one past the end.
FirstAfter(i, Stops(_)) ==
    LET later == {j \in Positions : j > i /\ Stops(j)}
    IN  IF later = {} THEN Len(paragraphs) + 1
        ELSE CHOOSE j \in later : \A k \in later : j <= k

IsHeading(i) == IsSectionHeading(i) \/ IsQuestionHeading(i)

IsClosingHeading(i) == IsQuestionHeading(i) /\ HasText(i)

\* No Body paragraph strictly between i and j.
NoBodyBetween(i, j) == \A k \in Positions : (i < k /\ k < j) => ~IsBody(k)

\* No record was opened by the question heading at position i.
NoRecordFor(i) == \A k \in 1..Len(flushes) : flushes[k].opened # i

\* C1: every emitted record has a non-empty section, a non-empty question
\* and a non-empty (trimmed) text.
C1_RecordFieldsNonEmpty ==
    \A k \in 1..Len(questions) :
        /\ questions[k].section # <<>>
        /\ questions[k].question # <<>>
        /\ questions[k].text # <<>>

\* C4 as claimed: a Question-Heading with no Body paragraph between it and
\* the next heading of either kind (or the end of the stream) yields no
\* record.
C4_NoBodyBeforeAnyHeading ==
    \A i \in Positions :
        (IsQuestionHeading(i) /\ NoBodyBetween(i, FirstAfter(i, IsHeading)))
            => NoRecordFor(i)

\* C4 amended: a Question-Heading with no Body paragraph between it and the
\* next Question-Heading whose normalized text is non-empty (or the end of
\* the stream) yields no record.
C4_NoBodyBeforeClosingHeading ==
    \A i \in Positions :
        (IsQuestionHeading(i) /\ NoBodyBetween(i, FirstAfter(i, IsClosingHeading)))
            => NoRecordFor(i)

\* A bodiless question was closed by a later question heading, and the parse
\* went on to emit a record for a later question.
C4_Witness ==
    /\ pc = "done"
    /\ Len(questions) >= 1
    /\ \E i \in Positions :
          /\ IsClosingHeading(i)
          /\ FirstAfter(i, IsClosingHeading) <= Len(paragraphs)
          /\ FirstAfter(i, IsClosingHeading) > i + 1
          /\ NoBodyBetween(i, FirstAfter(i, IsClosingHeading))

\* C5 as claimed: a Question-Heading immediately followed by another
\* Question-Heading never produces a record for the first one.
C5_AdjacentQuestionHeadings ==
    \A i \in Positions :
        (i < Len(paragraphs) /\ IsQuestionHeading(i) /\ IsQuestionHeading(i + 1))
            => NoRecordFor(i)

\* C5 amended: a Question-Heading immediately followed by another
\* Question-Heading whose normalized text is non-empty never produces a
\* record for the first one.
C5_AdjacentClosingHeading ==
    \A i \in Positions :
        (i < Len(paragraphs) /\ IsQuestionHeading(i) /\ IsClosingHeading(i + 1))
            => NoRecordFor(i)

\* Two adjacent question headings with text, in a finished parse that did
\* emit a record.
C5_Witness ==
    /\ pc = "done"
    /\ Len(questions) >= 1
    /\ \E i \in Positions :
          i < Len(paragraphs) /\ IsClosingHeading(i) /\ IsClosingHeading(i + 1)

\* C6: records are returned in the order of their flush points: of two
\* records the earlier one was flushed strictly earlier and was opened by a
\* strictly earlier question heading, whose text is the record's question.
C6_RecordsInFlushOrder ==
    /\ Len(flushes) = Len(questions)
    /\ \A k \in 1..Len(questions) :
          /\ flushes[k].opened \in Positions
          /\ flushes[k].opened < flushes[k].closed
          /\ flushes[k].closed <= Len(paragraphs) + 1
          /\ IsClosingHeading(flushes[k].opened)
          /\ questions[k].question = clean_line(paragraphs[flushes[k].opened].text)
    /\ \A a, b \in 1..Len(questions) :
          a < b => /\ flushes[a].closed < flushes[b].closed
                   /\ flushes[a].opened < flushes[b].opened

\* Two records with different questions, the second one from the final flush.
C6_Witness ==
    /\ pc = "done"
    /\ Len(questions) = 2
    /\ questions[1].question # questions[2].question
    /\ flushes[2].closed = Len(paragraphs) + 1

\* ===================================================================== main
\* A stored document without the '_id' the insert gave it.
Unstored(doc) == Bundle(doc.course, doc.documents)

Ids(coll) == {coll[k]._id : k \in 1..Len(coll)}

\* The collection holds exactly the first n bundles of the aggregate, one
\* stored document each, under ids no document of an earlier run had.
HoldsPrefix(n) ==
    /\ Len(collection) = n
    /\ \A k \in 1..n :
          /\ Unstored(collection[k]) = Unstored(documents[k])
          /\ collection[k]._id \notin Ids(prior)
    /\ Cardinality(Ids(collection)) = n

\* C7: when read_faq fails for a source the run aborts there: no later
\* source is fetched or parsed, no collection operation is ever invoked, the
\* collection stays as the run found it, and the bundles already built for
\* the earlier sources are not in it.
C7_FetchFailureAborts ==
    \A k \in 1..Len(fetched) :
        fetched[k].error # "none" =>
            /\ k = Len(fetched)
            /\ main_pc = "aborted"
            /\ course_idx = k - 1
            /\ Len(documents) = k - 1
            /\ db_ops = <<>>
            /\ collection = prior

\* The second of the three sources failed after the first had produced a
\* record, over a collection that was not empty.
C7_Witness ==
    /\ main_pc = "aborted"
    /\ Len(fetched) = 2
    /\ fetched[2].error = "FetchError"
    /\ documents[1].documents # <<>>
    /\ prior # <<>>

\* C8: after save_documents_to_mongodb has completed the collection holds
\* exactly the bundles of this run's aggregate, one stored document per
\* bundle, and nothing an earlier run wrote.
C8_OnlyCurrentRun ==
    main_pc = "done" => HoldsPrefix(Len(documents))

\* The save completed over a collection that held two documents, one of
\* them for a course of this run.
C8_Witness ==
    /\ main_pc = "done"
    /\ Len(prior) = 2
    /\ \E k \in 1..Len(prior) : prior[k].course = documents[1].course
    /\ \E k \in 1..Len(documents) : documents[k].documents # <<>>

\* C9: the delete comes before every insert, so the collection is empty
\* right after it, and from the delete on the collection holds a prefix of
\* the new aggregate and no document of an earlier run, also when the
\* process is killed there.
C9_DeleteBeforeInserts ==
    /\ db_ops # <<>> =>
          /\ db_ops[1] = "delete_many"
          /\ \A k \in 2..Len(db_ops) : db_ops[k] = "insert_one"
          /\ main_pc \in {"insert", "done"}
    /\ main_pc \in {"insert", "done"} =>
          /\ Len(db_ops) = ins_idx + 1
          /\ HoldsPrefix(ins_idx)
          /\ ins_idx = 0 => collection = <<>>

\* The process was killed after the delete and before the first insert, with
\* documents of an earlier run deleted and bundles to insert.
C9_Witness ==
    /\ ~alive
    /\ main_pc = "insert"
    /\ ins_idx = 0
    /\ prior # <<>>
    /\ collection = <<>>
    /\ documents # <<>>

\* C10: when no fetch fails process_faq_documents returns one bundle per
\* entry of the mapping, in the order of the mapping, each with the course of
\* its entry and the records parsed from the document fetched for the file
\* id of that entry; a source without paragraphs has a bundle with no record.
C10_OneBundlePerSource ==
    main_pc = "save" =>
        /\ Len(documents) = Len(faq_documents)
        /\ Len(fetched) = Len(faq_documents)
        /\ \A k \in 1..Len(faq_documents) :
              /\ fetched[k].error = "none"
              /\ fetched[k].file_id = faq_documents[k].file_id
              /\ documents[k].course = faq_documents[k].course
              /\ documents[k].documents = parse_document(fetched[k].paragraphs)
              /\ fetched[k].paragraphs = <<>> => documents[k].documents = <<>>

\* The aggregate was returned with a bundle for a source without paragraphs,
\* one for a source whose only question has no answer, and one with a record.
C10_Witness ==
    /\ main_pc = "save"
    /\ \E k \in 1..Len(documents) : fetched[k].paragraphs = <<>>
    /\ \E k \in 1..Len(documents) :
          fetched[k].paragraphs # <<>> /\ documents[k].documents = <<>>
    /\ \E k \in 1..Len(documents) : documents[k].documents # <<>>

\* C11: the records of a source depend on its paragraph sequence alone: two
\* sources of a batch with the same paragraphs get equal record lists,
\* whatever was parsed before each of them.
C11_ParseDependsOnParagraphsOnly ==
    \A j, k \in 1..Len(documents) :
        fetched[j].paragraphs = fetched[k].paragraphs
            => documents[j].documents = documents[k].documents

\* The first and the third source had the same paragraphs, and between them
\* a different document was parsed that ended on an answered question.
C11_Witness ==
    /\ main_pc = "save"
    /\ fetched[1].paragraphs = fetched[3].paragraphs
    /\ fetched[2].paragraphs # fetched[1].paragraphs
    /\ documents[2].documents # <<>>
    /\ answer_text_so_far = <<>>

\* C12: whatever the order of headings and body paragraphs, the parse of a
\* finite paragraph sequence comes to its end, one loop step per paragraph
\* and then the final flush, and returns a list of records; there is no
\* other outcome.
C12_ParseTerminates ==
    /\ <>(pc = "done")
    /\ [](pc \in {"loop", "done"})
    /\ [](\A k \in 1..Len(questions) :
             DOMAIN questions[k] = {"text", "section", "question"})

\* A finished parse of a malformed document: body text before any heading,
\* then an answered question that has no section; no record was made.
C12_Witness ==
    /\ pc = "done"
    /\ Len(paragraphs) >= 3
    /\ IsBody(1) /\ HasText(1)
    /\ section_title = <<>>
    /\ question_title # <<>>
    /\ answer_text_so_far # <<>>
    /\ questions = <<>>

\* The positions of the question headings, and the r-th of them.
QuestionPositions == {i \in Positions : IsQuestionHeading(i)}

NthQuestion(r) ==
    CHOOSE i \in QuestionPositions :
        Cardinality({q \in QuestionPositions : q <= i}) = r

\* The normalized texts of the paragraphs at positions i..j, joined by
\* newlines.
RECURSIVE JoinedText(_, _)
JoinedText(i, j) ==
    IF i > j THEN <<>>
    ELSE IF i = j THEN clean_line(paragraphs[i].text)
    ELSE clean_line(paragraphs[i].text) \o <<"\n">> \o JoinedText(i + 1, j)

\* The normalized text of the paragraph has a character that is not
\* whitespace.
NonBlank(i) ==
    LET t == clean_line(paragraphs[i].text)
    IN  \E c \in 1..Len(t) : t[c] \notin Whitespace

\* One section heading, then question headings, each followed by at least
\* one body paragraph; no paragraph is blank.
WellFormed ==
    /\ Len(paragraphs) >= 1
    /\ IsSectionHeading(1)
    /\ \A i \in Positions :
          /\ NonBlank(i)
          /\ i > 1 => ~IsSectionHeading(i)
          /\ i = 2 => IsQuestionHeading(i)
          /\ IsQuestionHeading(i) => (i < Len(paragraphs) /\ IsBody(i + 1))

\* C13: a well-formed sequence with k question headings yields exactly k
\* records, in order; record r has the section of the section heading, the
\* normalized text of the r-th question heading as its question and the
\* normalized texts of the body paragraphs of that question, joined by
\* newlines, as its text; it is emitted at the next question heading, the
\* last one by the flush at the end of the stream.
C13_WellFormedRecords ==
    (pc = "done" /\ WellFormed) =>
        /\ Len(questions) = Cardinality(QuestionPositions)
        /\ \A r \in 1..Len(questions) :
              LET i == NthQuestion(r)
                  j == FirstAfter(i, IsQuestionHeading)
              IN  /\ questions[r].section = clean_line(paragraphs[1].text)
                  /\ questions[r].question = clean_line(paragraphs[i].text)
                  /\ questions[r].text = JoinedText(i + 1, j - 1)
                  /\ flushes[r].closed = j

\* A step of the loop, and the paragraph it took.
LoopStep == Len(paragraphs') = Len(paragraphs) + 1

TakenStyle == lower(paragraphs'[Len(paragraphs')].style)

TakenText == clean_line(paragraphs'[Len(paragraphs')].text)

\* C14: a Section-Heading paragraph with non-empty normalized text sets
\* section_title to that text and nothing else: no record is emitted, and
\* question_title, answer_text_so_far and the records stay as they were.
C14_SectionHeadingOnlySetsSection ==
    [][ (LoopStep /\ TakenStyle = section_heading_style /\ TakenText # <<>>)
            => /\ section_title' = TakenText
               /\ UNCHANGED <<questions, question_title, answer_text_so_far,
                              opened_at, flushes>> ]_vars

\* A section heading with a new text was just taken while an answered
\* question was open under another section.
C14_Witness ==
    /\ pc = "loop"
    /\ Len(paragraphs) >= 4
    /\ IsSectionHeading(Len(paragraphs)) /\ HasText(Len(paragraphs))
    /\ section_title = clean_line(paragraphs[Len(paragraphs)].text)
    /\ \E i \in Positions :
          /\ i < opened_at
          /\ IsSectionHeading(i) /\ HasText(i)
          /\ clean_line(paragraphs[i].text) # section_title
    /\ question_title # <<>>
    /\ answer_text_so_far # <<>>
    /\ questions = <<>>

\* The section headings with text before position j, and the last of them.
SectionsBefore(j) == {i \in Positions : i < j /\ IsSectionHeading(i) /\ HasText(i)}

LastSectionBefore(j) ==
    CHOOSE i \in SectionsBefore(j) : \A k \in SectionsBefore(j) : k <= i

\* A newline and the normalized text for every body paragraph with text
\* strictly between the positions i and j, in the order of the paragraphs.
RECURSIVE BodyLinesBetween(_, _)
BodyLinesBetween(i, j) ==
    IF i + 1 >= j THEN <<>>
    ELSE (IF IsBody(i + 1) /\ HasText(i + 1)
          THEN <<"\n">> \o clean_line(paragraphs[i + 1].text)
          ELSE <<>>) \o BodyLinesBetween(i + 1, j)

\* C15: a record carries the section of the last Section-Heading with text
\* before its flush point, not the one in force when its question heading
\* was read, and its text gathers every body paragraph between its question
\* heading and its flush point, those after a new Section-Heading included.
C15_SectionAtFlushPoint ==
    \A k \in 1..Len(questions) :
        LET o == flushes[k].opened
            c == flushes[k].closed
        IN  /\ SectionsBefore(c) # {}
            /\ questions[k].section = clean_line(paragraphs[LastSectionBefore(c)].text)
            /\ questions[k].text = strip(BodyLinesBetween(o, c), Whitespace)

\* A record whose question was opened under one section and flushed under
\* another one, with body text after the new section heading.
C15_Witness ==
    /\ pc = "done"
    /\ \E k \in 1..Len(questions) :
          LET o == flushes[k].opened
              c == flushes[k].closed
          IN  /\ SectionsBefore(o) # {}
              /\ LastSectionBefore(c) > o
              /\ clean_line(paragraphs[LastSectionBefore(o)].text) # questions[k].section
              /\ \E b \in Positions :
                    /\ LastSectionBefore(c) < b /\ b < c
                    /\ IsBody(b) /\ HasText(b)
              /\ \E b \in Positions :
                    /\ o < b /\ b < LastSectionBefore(c)
                    /\ IsBody(b) /\ HasText(b)

\* C16: a Question-Heading paragraph with non-empty normalized text emits
\* at most one record, and exactly one if and only if answer_text_so_far,
\* section_title and question_title were all non-empty just before it;
\* afterwards question_title is the text of the paragraph and
\* answer_text_so_far is empty, record or not, and section_title is as before.
C16_QuestionHeadingStep ==
    [][ (LoopStep /\ TakenStyle = question_heading_style /\ TakenText # <<>>)
            => /\ IF answer_text_so_far # <<>> /\ section_title # <<>>
                                               /\ question_title # <<>>
                  THEN /\ Len(questions') = Len(questions) + 1
                       /\ SubSeq(questions', 1, Len(questions)) = questions
                       /\ questions'[Len(questions')].section = section_title
                       /\ questions'[Len(questions')].question = question_title
                  ELSE questions' = questions
               /\ question_title' = TakenText
               /\ answer_text_so_far' = <<>>
               /\ section_title' = section_title ]_vars

\* A question heading was just taken and emitted a record; the new question
\* differs from the one of the record.
C16_Witness ==
    /\ pc = "loop"
    /\ Len(questions) = 1
    /\ IsClosingHeading(Len(paragraphs))
    /\ flushes[1].closed = Len(paragraphs)
    /\ question_title = clean_line(paragraphs[Len(paragraphs)].text)
    /\ question_title # questions[1].question
    /\ answer_text_so_far = <<>>

\* The paragraph has text left after normalization.
KeepsText(p) == clean_line(p.text) # <<>>

HeadingStyles == {section_heading_style, question_heading_style}

BodyLabels == {name \in StyleNames : lower(name) \notin HeadingStyles}

\* The sequence with every paragraph that is not a heading labelled `label`.
Relabelled(paras, label) ==
    [i \in 1..Len(paras) |->
        IF lower(paras[i].style) \in HeadingStyles
        THEN paras[i]
        ELSE [paras[i] EXCEPT !.style = label]]

\* C18: only the two heading labels matter: a paragraph with any other
\* label never changes section_title or question_title and never flushes,
\* the step it causes is the same under every other such label, and so are
\* the records returned for the sequence.
C18_OnlyHeadingLabelsMatter ==
    /\ [][ (LoopStep /\ TakenStyle \notin HeadingStyles)
              => /\ UNCHANGED <<questions, section_title, question_title,
                                opened_at, flushes>>
                 /\ \A label \in BodyLabels :
                       ParseState' = LoopBody(ParseState,
                                              [style |-> label,
                                               text |-> paragraphs'[Len(paragraphs')].text])
          ]_vars
    /\ [](pc = "done" =>
             \A label \in BodyLabels :
                 parse_document(Relabelled(paragraphs, label)) = questions)

\* A finished parse whose record has body text under both body labels.
C18_Witness ==
    /\ pc = "done"
    /\ Len(questions) >= 1
    /\ \E i, j \in Positions :
          /\ flushes[1].opened < i /\ i < flushes[1].closed
          /\ flushes[1].opened < j /\ j < flushes[1].closed
          /\ paragraphs[i].style = "Normal" /\ HasText(i)
          /\ paragraphs[j].style = "List Paragraph" /\ HasText(j)

\* The question headings with text.
ClosingHeadings == {i \in Positions : IsClosingHeading(i)}

\* C19: every record belongs to a Question-Heading paragraph with text of
\* its own, whose normalized text is the question of the record; no such
\* paragraph has two records, so there are no more records than such
\* paragraphs; and the text of a record is made of the body paragraphs
\* after its question heading only: body text from before the first
\* question heading is in no record.
C19_OneRecordPerQuestionHeading ==
    /\ Len(flushes) = Len(questions)
    /\ Len(questions) <= Cardinality(ClosingHeadings)
    /\ \A k \in 1..Len(questions) :
          /\ flushes[k].opened \in ClosingHeadings
          /\ questions[k].question = clean_line(paragraphs[flushes[k].opened].text)
          /\ \A m \in 1..Len(questions) :
                m # k => flushes[m].opened # flushes[k].opened
          /\ questions[k].text =
                strip(BodyLinesBetween(flushes[k].opened, flushes[k].closed), Whitespace)

\* A finished parse with body text before the first question heading, a
\* question heading that got no record, and a record with another text.
C19_Witness ==
    /\ pc = "done"
    /\ Len(questions) = 1
    /\ Cardinality(ClosingHeadings) > 1
    /\ \E b \in Positions :
          /\ IsBody(b) /\ HasText(b)
          /\ \A i \in ClosingHeadings : b < i
          /\ clean_line(paragraphs[b].text) # questions[1].text

====
